---- MODULE Spec2Model ----
(***************************************************************************)
(* Command execution and telemetry pipeline of ohmytoolboxs:               *)
(*   - the device registries of the four tool families (ADB, fastboot,     *)
(*     QDL, QRamdump): refresh, auto-connect policy, user selection;       *)
(*   - the ADB telemetry sampler (interval gate, sample pass) and its      *)
(*     bounded time series;                                                *)
(*   - the fastboot streaming executor (two reader threads, one channel).  *)
(* Three specifications share the definitions: SpecRegistry, SpecTelemetry *)
(* and SpecStream.  Variables a specification does not use keep their      *)
(* initial value in it.                                                    *)
(***************************************************************************)
EXTENDS Integers, Sequences, FiniteSets, TLC

(***************************************************************************)
(* Bounds of the model.                                                    *)
(***************************************************************************)
\* Longest listing output (in lines) a device-listing command returns.
MaxLines == 3
\* The clock runs from 0 to MaxTime (one unit = one second).
MaxTime == 2
\* The sampling interval is 1..MaxInterval seconds.
MaxInterval == 2
\* A sample pass blocks on its commands for 0..MaxBlock seconds.
MaxBlock == 1
\* At most MaxPasses calls of update_monitoring_data in a run.
MaxPasses == 2
\* The capacity of a series: MinMaxPoints..MaxMaxPoints, DefaultMaxPoints at
\* start (10..=10000 and 1000 in the program, scaled down).
MinMaxPoints == 1
MaxMaxPoints == 2
DefaultMaxPoints == 2
\* The gateways are invoked at most MaxCalls times.
MaxCalls == 3
\* The child of a streaming run writes at most MaxStreamLines lines a stream.
MaxStreamLines == 2
\* Load values a device reports: 1..MaxValue.
MaxValue == 1
\* u64 arithmetic wraps modulo U64Modulus (2^64 in the program, scaled down).
U64Modulus == 256

\* Option::None of a string, and Option<T> of a number: <<>> or <<v>>.
None == "None"
NoneV == <<>>
Some(v) == <<v>>
Unwrap(o) == o[1]

\* Identifiers a listing command can report.
DeviceIds == {"d1", "d2", "d3"}
\* COM ports a Qualcomm listing can report.
Ports == {"COM3", "COM5"}

VARIABLES
    \* ---- AdbToolsState (src/src/tools/adb_tools.rs)
    selected_device,        \* Option<String>
    devices,                \* Vec<AdbDevice>
    last_refresh,           \* "Never", or "HH:MM:SS" once a refresh has written it
    initial_refresh_done,   \* bool
    \* ---- FastbootToolsState
    fb_selected_device, fb_devices, fb_initial_refresh_done,
    \* ---- QdlToolsState
    qdl_selected_device, qdl_devices, qdl_initial_refresh_done,
    \* ---- QramdumpToolsState
    qrd_selected_device, qrd_devices, qrd_initial_refresh_done,
    \* ---- the wall clock read by Instant::now()
    now,
    \* ---- app.rs: the tool panel the content area renders
    selected_tool,
    \* ---- AdbToolsState, device monitoring
    monitoring_enabled,     \* bool
    last_update_time,       \* Option<Instant>
    monitor_interval,       \* seconds
    time_series,            \* TimeSeriesData
    cpu_usage,              \* the displayed load line
    memory_info,            \* the "Memory Usage" entry of the map
    battery_info,           \* the "Battery Level" and "Temperature" entries
    aborted,                \* the host process has panicked
    \* ---- history: the number of update_monitoring_data calls so far, and the
    \* last operation (its kind and family, the selection before a registry
    \* operation, and as a note the state of the interval gate in a frame or
    \* whether a new capacity is below the length of a series)
    passes,
    pushed,                 \* history: per series, what it held when the capacity was
                            \* last set (nothing at first and after a clear) followed
                            \* by every sample pushed since
    answer,                 \* history: what the device answered in the last pass
    ev,
    \* ---- FastbootTool::execute_with_output
    child,                  \* the lines the child writes to each stream, its way of exiting
    pipe,                   \* per stream: the lines not yet read by its reader thread
    reader_pc,              \* per stream: "none", "reading" or "done" (sender dropped)
    channel,                \* the mpsc queue
    main_pc,                \* "idle", "drain", "wait", "returned" or "failed"
    output_lines,           \* Vec<String>
    error_lines,            \* Vec<String>
    delivered,              \* history: the arguments of the callback, in call order
    result,                 \* the returned FastbootResult
    \* ---- the command gateways (execute_adb_command, FastbootTool::execute_operation)
    gateway                 \* the last invocation: which gateway, what the process did,
                            \* what was returned; history: the invocations and the
                            \* process runs so far

adbRegVars == <<selected_device, devices, last_refresh, initial_refresh_done>>
fbVars == <<fb_selected_device, fb_devices, fb_initial_refresh_done>>
qdlVars == <<qdl_selected_device, qdl_devices, qdl_initial_refresh_done>>
qrdVars == <<qrd_selected_device, qrd_devices, qrd_initial_refresh_done>>
streamVars == <<child, pipe, reader_pc, channel, main_pc, output_lines, error_lines,
                delivered, result>>
gwVars == <<gateway>>
telVars == <<monitoring_enabled, last_update_time, monitor_interval, time_series,
             cpu_usage, memory_info, battery_info, aborted, passes, pushed, answer>>

(***************************************************************************)
(* Sequence helpers.                                                       *)
(***************************************************************************)
\* All sequences over S of length at most n.
SeqsUpTo(S, n) == UNION {[1..k -> S] : k \in 0..n}

\* The elements of a sequence.

\* Iterator::skip(n)
Skip(s, n) == IF Len(s) <= n THEN <<>> ELSE SubSeq(s, n + 1, Len(s))

(***************************************************************************)
(* Listing output.  A line is the sequence of its whitespace-separated     *)
(* tokens (str::split_whitespace); a blank line is the empty sequence.     *)
(* str::contains(marker) is true of a line that holds the marker token.    *)
(***************************************************************************)
ContainsToken(line, markers) == \E i \in 1..Len(line) : line[i] \in markers

\* adb devices -l
AdbHeader == <<"List of devices">>
AdbLines == {AdbHeader, <<>>, <<"d1">>} \cup {<<d, "device">> : d \in DeviceIds}

\* The device-parsing loop of refresh_devices: the first line is skipped, so
\* are blank lines and header lines; a line of two or more tokens is a device.
RECURSIVE AdbParseLines(_)
AdbParseLines(lines) ==
    IF lines = <<>> THEN <<>>
    ELSE LET line == Head(lines)
             rest == AdbParseLines(Tail(lines))
         IN  IF line = <<>> \/ ContainsToken(line, {"List of devices"}) THEN rest
             ELSE IF Len(line) >= 2
                  THEN <<[id |-> line[1], status |-> line[2]]>> \o rest
                  ELSE rest

AdbParseDevices(output) == AdbParseLines(Skip(output, 1))

\* any(|d| d.id == *selected_id)
DeviceStillExists(devs, sel) == \E i \in 1..Len(devs) : devs[i].id = sel

\* The auto-connect policy at the end of refresh_devices: one device is
\* selected, no device clears the selection, several devices keep the
\* selection only while it is still listed.
AdbAutoConnect(devs, sel) ==
    IF Len(devs) = 1 THEN devs[1].id
    ELSE IF devs = <<>> THEN None
    ELSE IF sel # None /\ ~DeviceStillExists(devs, sel) THEN None
    ELSE sel

\* The parsing loop of FastbootTool::list_devices: every non-blank line of two
\* or more tokens.
FbLines == {<<>>, <<"d1">>} \cup {<<d, "fastboot">> : d \in DeviceIds}

RECURSIVE FbParseLines(_)
FbParseLines(lines) ==
    IF lines = <<>> THEN <<>>
    ELSE LET line == Head(lines)
             rest == FbParseLines(Tail(lines))
         IN  IF line # <<>> /\ Len(line) >= 2
             THEN <<[serial |-> line[1], status |-> line[2]]>> \o rest
             ELSE rest

\* The single-device branch left out: the selection is only kept.
FbAutoConnect_KeepsSelection(devs, sel) == sel

\* The selection after a successful listing in refresh_fastboot_devices: only
\* the single-device branch exists.
FbAutoConnect(devs, sel) ==
    IF Len(devs) = 1 THEN devs[1].serial ELSE sel

\* qdl-rs --list-devices: a line that holds an EDL marker and has three or
\* more tokens is a device on the port named by its first token.
QdlMarkers == {"9008", "EDL", "QDLoader"}
QdlRsLines == {<<"COM3", "9008", "x">>, <<"COM5", "EDL", "x">>, <<"COM5", "x", "y">>}

RECURSIVE QdlRsParse(_)
QdlRsParse(lines) ==
    IF lines = <<>> THEN <<>>
    ELSE LET line == Head(lines)
             rest == QdlRsParse(Tail(lines))
         IN  IF ContainsToken(line, QdlMarkers) /\ Len(line) >= 3
             THEN <<[port |-> line[1], status |-> "Ready"]>> \o rest
             ELSE rest

\* extract_com_port_from_device_line: the first token that is a COM port.
RECURSIVE extract_com_port_from_device_line(_)
extract_com_port_from_device_line(line) ==
    IF line = <<>> THEN None
    ELSE IF Head(line) \in Ports THEN Head(line)
    ELSE extract_com_port_from_device_line(Tail(line))

\* The PowerShell listings (Win32_PnPEntity, Win32_SerialPort).
PsMarkers == {"Qualcomm HS-USB QDLoader 9008", "VID_05C6&PID_9008"}
PsLines == {<<"VID_05C6&PID_9008", "COM3", "OK">>, <<"VID_05C6&PID_9008", "COM5">>,
            <<"COM3", "other">>}

\* The parsing loop of detect_edl_devices_via_device_manager.
RECURSIVE DeviceManagerParse(_)
DeviceManagerParse(lines) ==
    IF lines = <<>> THEN <<>>
    ELSE LET line == Head(lines)
             rest == DeviceManagerParse(Tail(lines))
             port == extract_com_port_from_device_line(line)
         IN  IF ContainsToken(line, PsMarkers) /\ port # None
             THEN <<[port |-> port,
                     status |-> IF ContainsToken(line, {"OK"}) THEN "Ready" ELSE "Unknown"]>>
                  \o rest
             ELSE rest

\* The parsing loop of detect_edl_via_com_ports.
RECURSIVE ComPortsParse(_)
ComPortsParse(lines) ==
    IF lines = <<>> THEN <<>>
    ELSE LET line == Head(lines)
             rest == ComPortsParse(Tail(lines))
             port == extract_com_port_from_device_line(line)
         IN  IF ContainsToken(line, Ports) /\ ContainsToken(line, {"VID_05C6&PID_9008"})
                /\ port # None
             THEN <<[port |-> port, status |-> "Detected"]>> \o rest
             ELSE rest

\* add_simulated_edl_device
add_simulated_edl_device(devs) == Append(devs, [port |-> "COM3", status |-> "Simulated"])

\* A command result: the process could not be spawned, exited with failure,
\* or exited with success and wrote the given lines.
SpawnErr == [kind |-> "spawn_err", lines |-> <<>>]
ExitFail(lines) == [kind |-> "exit_fail", lines |-> lines]
ExitOk(lines) == [kind |-> "ok", lines |-> lines]
CommandResults(Lines) ==
    {SpawnErr} \cup {ExitFail(<<>>)} \cup {ExitOk(l) : l \in SeqsUpTo(Lines, MaxLines)}

\* detect_edl_devices_via_qdl_rs
detect_edl_devices_via_qdl_rs(devs, r) ==
    IF r.kind = "ok" THEN devs \o QdlRsParse(r.lines) ELSE devs

\* detect_edl_via_com_ports: a listing that cannot be spawned, or that finds
\* nothing, falls back to the simulated device.
detect_edl_via_com_ports(devs, r) ==
    LET d1 == IF r.kind = "spawn_err" THEN add_simulated_edl_device(devs)
              ELSE IF r.kind = "ok" THEN devs \o ComPortsParse(r.lines)
              ELSE devs
    IN  IF d1 = <<>> THEN add_simulated_edl_device(d1) ELSE d1

\* handle_edl_auto_connect
handle_edl_auto_connect(devs, sel) ==
    IF Len(devs) = 1 THEN devs[1].port
    ELSE IF devs = <<>> THEN None
    ELSE IF sel # None /\ ~(\E i \in 1..Len(devs) : devs[i].port = sel) THEN None
    ELSE sel

\* qramdump --list-devices: a line that contains "crash" or "ramdump" and has
\* three or more tokens is a device on the port named by its first token.
QrdLines == {<<p, "crash", "x">> : p \in Ports} \cup {<<"COM3", "ramdump">>, <<"COM5", "x", "y">>}

RECURSIVE QrdParse(_)
QrdParse(lines) ==
    IF lines = <<>> THEN <<>>
    ELSE LET line == Head(lines)
             rest == QrdParse(Tail(lines))
         IN  IF ContainsToken(line, {"crash", "ramdump"}) /\ Len(line) >= 3
             THEN <<[port |-> line[1], status |-> "Crashed"]>> \o rest
             ELSE rest

\* The simulated device refresh_qramdump_devices falls back to.
QrdSimulated == [port |-> "COM4", status |-> "Simulated"]

\* The scan of detect_edl_devices_via_device_manager: a successful, non-blank
\* listing adds the devices it names.
DeviceManagerScan(devs, r) ==
    IF r.kind = "ok" /\ (\E i \in 1..Len(r.lines) : r.lines[i] # <<>>)
    THEN devs \o DeviceManagerParse(r.lines)
    ELSE devs

\* detect_edl_devices_via_device_manager, with the COM-port scan it falls back
\* to while no device is found.
detect_edl_devices_via_device_manager(devs, r, rcom) ==
    LET d1 == DeviceManagerScan(devs, r)
    IN  IF d1 = <<>> THEN detect_edl_via_com_ports(d1, rcom) ELSE d1

\* The detection chain of refresh_qdl_devices: qdl-rs first, the device
\* manager only while nothing was found.
DetectEdlDevices(r1, r2, r3) ==
    LET d1 == detect_edl_devices_via_qdl_rs(<<>>, r1)
    IN  IF d1 = <<>> THEN detect_edl_devices_via_device_manager(d1, r2, r3) ELSE d1

(***************************************************************************)
(* Device registries.                                                      *)
(***************************************************************************)
RegEv(family, op, prior) ==
    [family |-> family, op |-> op, prior |-> prior, note |-> "none"]

InitRegistry ==
    \* OhMyToolboxsApp::new applies the saved configuration before the first
    \* frame: the ADB selection is whatever the configuration file names.
    /\ selected_device \in {None} \cup DeviceIds
    /\ devices = <<>>
    /\ last_refresh = "Never"
    /\ initial_refresh_done = FALSE
    /\ fb_selected_device = None /\ fb_devices = <<>> /\ fb_initial_refresh_done = FALSE
    /\ qdl_selected_device = None /\ qdl_devices = <<>> /\ qdl_initial_refresh_done = FALSE
    /\ qrd_selected_device = None /\ qrd_devices = <<>> /\ qrd_initial_refresh_done = FALSE
    /\ ev = RegEv("none", "init", None)

\* What `adb devices -l` can come to: execute_adb_command is Ok exactly when
\* the process ran and exited with success, and then the output is parsed.
Listing(ok, devs) == [kind |-> IF ok THEN "ok" ELSE "err", devs |-> devs]
AdbListings ==
    {Listing(r.kind = "ok", IF r.kind = "ok" THEN AdbParseDevices(r.lines) ELSE <<>>) :
        r \in CommandResults(AdbLines)}

\* A listing that failed empties the device list, as the fastboot refresh does.
refresh_devices_ClearsOnError(r) ==
    IF r.kind = "ok"
    THEN LET devs == r.devs
         IN  /\ devices' = devs
             /\ selected_device' = AdbAutoConnect(devs, selected_device)
             /\ last_refresh' = "HH:MM:SS"
             /\ ev' = RegEv("adb", "refresh", selected_device)
    ELSE /\ devices' = <<>>
         /\ UNCHANGED <<selected_device, last_refresh>>
         /\ ev' = RegEv("adb", "refresh_failed", selected_device)

\* refresh_devices on the listing r.
refresh_devices(r) ==
    IF r.kind = "ok"
    THEN LET devs == r.devs
         IN  /\ devices' = devs
             /\ selected_device' = AdbAutoConnect(devs, selected_device)
             /\ last_refresh' = "HH:MM:SS"
             /\ ev' = RegEv("adb", "refresh", selected_device)
    ELSE /\ UNCHANGED <<devices, selected_device, last_refresh>>
         /\ ev' = RegEv("adb", "refresh_failed", selected_device)

\* show_adb_tools, first frame: the automatic refresh.
AdbInitialRefresh(listings) ==
    /\ ~initial_refresh_done
    /\ \E r \in listings : refresh_devices(r)
    /\ initial_refresh_done' = TRUE

\* The "Refresh Devices" button.
AdbRefresh(listings) ==
    /\ initial_refresh_done
    /\ \E r \in listings : refresh_devices(r)
    /\ UNCHANGED initial_refresh_done

\* The device combo box: None or one of the listed devices.
AdbSelect ==
    /\ initial_refresh_done
    /\ \E s \in {None} \cup {devices[i].id : i \in 1..Len(devices)} :
          /\ s # selected_device
          /\ selected_device' = s
    /\ ev' = RegEv("adb", "select", selected_device)
    /\ UNCHANGED <<devices, last_refresh, initial_refresh_done>>

\* OhMyToolboxsApp::load_saved_settings -> ConfigManager::apply_to_adb_state:
\* the selection becomes the one stored in the configuration file.
LoadSavedSelection(cfg_selected) ==
    /\ selected_device' = cfg_selected
    /\ ev' = RegEv("adb", "load", selected_device)
    /\ UNCHANGED <<devices, last_refresh, initial_refresh_done>>

\* FastbootTool::list_devices: Err when the process cannot be spawned or
\* exits with failure, the parsed devices otherwise.
list_devices ==
    {Listing(r.kind = "ok", IF r.kind = "ok" THEN FbParseLines(r.lines) ELSE <<>>) :
        r \in CommandResults(FbLines)}

\* refresh_fastboot_devices on the listing r.
refresh_fastboot_devices(r) ==
    IF r.kind = "ok"
    THEN LET devs == r.devs
         IN  /\ fb_devices' = devs
             /\ fb_selected_device' = FbAutoConnect(devs, fb_selected_device)
             /\ ev' = RegEv("fastboot", "refresh", fb_selected_device)
    ELSE /\ fb_devices' = <<>>
         /\ UNCHANGED fb_selected_device
         /\ ev' = RegEv("fastboot", "refresh_failed", fb_selected_device)

FbInitialRefresh ==
    /\ ~fb_initial_refresh_done
    /\ \E r \in list_devices : refresh_fastboot_devices(r)
    /\ fb_initial_refresh_done' = TRUE

FbRefresh ==
    /\ fb_initial_refresh_done
    /\ \E r \in list_devices : refresh_fastboot_devices(r)
    /\ UNCHANGED fb_initial_refresh_done

FbSelect ==
    /\ fb_initial_refresh_done
    /\ \E s \in {None} \cup {fb_devices[i].serial : i \in 1..Len(fb_devices)} :
          /\ s # fb_selected_device
          /\ fb_selected_device' = s
    /\ ev' = RegEv("fastboot", "select", fb_selected_device)
    /\ UNCHANGED <<fb_devices, fb_initial_refresh_done>>

\* Every device list the detection chain can come to.  A command the chain
\* does not run has no result to draw: it is fixed to SpawnErr.
EdlDetections ==
    UNION {UNION {{DetectEdlDevices(r1, r2, r3) :
                     r3 \in IF detect_edl_devices_via_qdl_rs(<<>>, r1) = <<>>
                               /\ DeviceManagerScan(<<>>, r2) = <<>>
                            THEN CommandResults(PsLines) ELSE {SpawnErr}} :
                  r2 \in IF detect_edl_devices_via_qdl_rs(<<>>, r1) = <<>>
                         THEN CommandResults(PsLines) ELSE {SpawnErr}} :
           r1 \in CommandResults(QdlRsLines)}

\* refresh_qdl_devices: the list is rebuilt by the detection chain, then
\* handle_edl_auto_connect sets the selection.
refresh_qdl_devices ==
    \E devs \in EdlDetections :
        /\ qdl_devices' = devs
        /\ qdl_selected_device' = handle_edl_auto_connect(devs, qdl_selected_device)
        /\ ev' = RegEv("qdl", "refresh", qdl_selected_device)

QdlInitialRefresh ==
    /\ ~qdl_initial_refresh_done
    /\ refresh_qdl_devices
    /\ qdl_initial_refresh_done' = TRUE

QdlRefresh ==
    /\ qdl_initial_refresh_done
    /\ refresh_qdl_devices
    /\ UNCHANGED qdl_initial_refresh_done

QdlSelect ==
    /\ qdl_initial_refresh_done
    /\ \E s \in {None} \cup {qdl_devices[i].port : i \in 1..Len(qdl_devices)} :
          /\ s # qdl_selected_device
          /\ qdl_selected_device' = s
    /\ ev' = RegEv("qdl", "select", qdl_selected_device)
    /\ UNCHANGED <<qdl_devices, qdl_initial_refresh_done>>

\* The selection after a successful listing in refresh_qramdump_devices: only
\* the single-device branch exists.
QrdAutoSelect(devs, sel) ==
    IF Len(devs) = 1 THEN devs[1].port ELSE sel

\* What `qramdump --list-devices` can come to.
QrdListings ==
    {Listing(r.kind = "ok", IF r.kind = "ok" THEN QrdParse(r.lines) ELSE <<>>) :
        r \in CommandResults(QrdLines)}

\* refresh_qramdump_devices on the listing r: a listing that cannot be spawned
\* or that fails yields the simulated device.
refresh_qramdump_devices(r) ==
    /\ IF r.kind = "ok"
       THEN LET devs == r.devs
            IN  /\ qrd_devices' = devs
                /\ qrd_selected_device' = QrdAutoSelect(devs, qrd_selected_device)
       ELSE /\ qrd_devices' = <<QrdSimulated>>
            /\ qrd_selected_device' = QrdSimulated.port
    /\ ev' = RegEv("qramdump", "refresh", qrd_selected_device)

QrdInitialRefresh ==
    /\ ~qrd_initial_refresh_done
    /\ \E r \in QrdListings : refresh_qramdump_devices(r)
    /\ qrd_initial_refresh_done' = TRUE

QrdRefresh ==
    /\ qrd_initial_refresh_done
    /\ \E r \in QrdListings : refresh_qramdump_devices(r)
    /\ UNCHANGED qrd_initial_refresh_done

QrdSelect ==
    /\ qrd_initial_refresh_done
    /\ \E s \in {None} \cup {qrd_devices[i].port : i \in 1..Len(qrd_devices)} :
          /\ s # qrd_selected_device
          /\ qrd_selected_device' = s
    /\ ev' = RegEv("qramdump", "select", qrd_selected_device)
    /\ UNCHANGED <<qrd_devices, qrd_initial_refresh_done>>

(***************************************************************************)
(* Telemetry: the time series and the metric parsers.                      *)
(***************************************************************************)
Metrics == {"cpu_usage", "memory_usage", "battery_level", "battery_temperature"}

\* TimeSeriesData::default, with the capacity the model starts from.
DefaultTimeSeries ==
    [cpu_usage |-> <<>>, memory_usage |-> <<>>, battery_level |-> <<>>,
     battery_temperature |-> <<>>, start_time |-> NoneV, max_points |-> DefaultMaxPoints]

\* DataPoint
DataPoint(t, v) == [timestamp |-> t, value |-> v]

\* The eviction loop stops one sample early.
PopFrontWhile_StopsEarly(series, max_points) ==
    IF Len(series) > max_points + 1 THEN Tail(series) ELSE series

\* Eviction removes the newest sample.
RECURSIVE PopBackWhile(_, _)
PopBackWhile(series, max_points) ==
    IF Len(series) > max_points
    THEN PopBackWhile(SubSeq(series, 1, Len(series) - 1), max_points)
    ELSE series

\* while series.len() > max_points { series.pop_front(); }
RECURSIVE PopFrontWhile(_, _)
PopFrontWhile(series, max_points) ==
    IF Len(series) > max_points THEN PopFrontWhile(Tail(series), max_points) ELSE series

\* series.push_back(data_point), then the eviction loop.
PushDataPoint(series, data_point, max_points) ==
    PopFrontWhile(Append(series, data_point), max_points)

\* What the device answers in one sample pass: the outcome of `cat
\* /proc/loadavg` (command error, fewer than three tokens, a first token that
\* is no number, or a load), of `cat /proc/meminfo` (command error, no
\* MemAvailable line, or MemTotal and MemAvailable in kB) and of `dumpsys
\* battery` (command error, or the level and temperature lines it has).
OkResponse ==
    [cpu |-> "ok", load |-> 1, mem |-> "ok", total |-> 10, available |-> 4,
     battery |-> "ok", level |-> "ok", temperature |-> "ok"]
Responses ==
    {OkResponse}
    \cup {[OkResponse EXCEPT !.cpu = c] : c \in {"err", "short"}}
    \cup {[OkResponse EXCEPT !.load = l] : l \in 1..MaxValue}
    \cup {[OkResponse EXCEPT !.mem = "missing"]}
    \cup {[OkResponse EXCEPT !.total = 4, !.available = 10]}
    \cup {[OkResponse EXCEPT !.total = 3, !.available = 1]}
    \cup {[OkResponse EXCEPT !.total = 0, !.available = 0]}
    \cup {[OkResponse EXCEPT !.battery = "err"]}

\* The displayed load line: empty, "CPU usage unavailable", or
\* "Load: <first token> ...".
CpuEmpty == [kind |-> "empty", load |-> 0]
CpuUnavailable == [kind |-> "unavailable", load |-> 0]
CpuLoadLine(r) == [kind |-> "load", load |-> r.load]

\* get_cpu_usage: a failed command shows "unavailable", an output of fewer
\* than three tokens leaves the line as it was.
get_cpu_usage(cpu, r) ==
    IF r.cpu = "err" THEN CpuUnavailable
    ELSE IF r.cpu = "short" THEN cpu
    ELSE CpuLoadLine(r)

\* parse_cpu_load
parse_cpu_load(cpu) == IF cpu.kind = "load" THEN Some(cpu.load) ELSE NoneV

\* `total - available` on u64: a build with overflow checks panics when
\* available exceeds total, a build without them wraps.
Builds == {"checked", "wrapping"}
MemPanics(r, build) == r.mem = "ok" /\ r.available > r.total /\ build = "checked"
\* The builds that differ on the answer r.
BuildsFor(r) == IF r.mem = "ok" /\ r.available > r.total THEN Builds ELSE {"checked"}

\* f64 values that are no number of tenths: 0.0 / 0.0 and x / 0.0.
NaN == -1
Infinity == -2

\* The quotient is cut to a tenth, not rounded.
FormatPercent_Truncates(used, total) ==
    IF total = 0 THEN (IF used = 0 THEN NaN ELSE Infinity)
    ELSE (used * 1000) \div total

\* format!("{:.1}%", used as f64 / total as f64 * 100.0), as a number of
\* tenths: the quotient is rounded to the nearest tenth, a tie to the even one.
FormatPercent(used, total) ==
    IF total = 0 THEN (IF used = 0 THEN NaN ELSE Infinity)
    ELSE LET q == (used * 1000) \div total
             rem == (used * 1000) % total
         IN  IF 2 * rem > total \/ (2 * rem = total /\ q % 2 = 1) THEN q + 1 ELSE q

\* get_memory_info: the map is cleared, then "Memory Usage" is inserted when
\* both totals were read; the value is the text of the percentage, kept as
\* its number of tenths.
get_memory_info(r) ==
    IF r.mem = "ok"
    THEN Some(FormatPercent((r.total - r.available) % U64Modulus, r.total))
    ELSE NoneV

\* parse_memory_usage: the text before '%' is parsed back; every text that
\* FormatPercent writes parses ("NaN" and "inf" included) to the number it shows.
parse_memory_usage(mem) == mem

\* get_battery_monitoring_info: the map is cleared, then the level and the
\* temperature lines that are present are inserted.
NoBattery == [level |-> "absent", temperature |-> "absent"]
get_battery_monitoring_info(r) ==
    IF r.battery = "ok" THEN [level |-> r.level, temperature |-> r.temperature]
    ELSE NoBattery

\* parse_battery_level, parse_battery_temperature
parse_battery_level(bat) == IF bat.level = "ok" THEN Some(1) ELSE NoneV
parse_battery_temperature(bat) == IF bat.temperature = "ok" THEN Some(1) ELSE NoneV

\* add_time_series_data at clock value t.
AddPoint(series, parsed, elapsed, max_points) ==
    IF parsed # NoneV
    THEN PushDataPoint(series, DataPoint(elapsed, Unwrap(parsed)), max_points)
    ELSE series

\* The samples carry the clock value instead of the time since start_time.
add_time_series_data_AbsoluteTime(ts, cpu, mem, bat, t) ==
    IF ts.start_time = NoneV THEN ts
    ELSE [ts EXCEPT
            !.cpu_usage = AddPoint(@, parse_cpu_load(cpu), t, ts.max_points),
            !.memory_usage = AddPoint(@, parse_memory_usage(mem), t, ts.max_points),
            !.battery_level = AddPoint(@, parse_battery_level(bat), t, ts.max_points),
            !.battery_temperature =
                AddPoint(@, parse_battery_temperature(bat), t, ts.max_points)]

add_time_series_data(ts, cpu, mem, bat, t) ==
    IF ts.start_time = NoneV THEN ts
    ELSE LET elapsed == t - Unwrap(ts.start_time)
         IN  [ts EXCEPT
                !.cpu_usage = AddPoint(@, parse_cpu_load(cpu), elapsed, ts.max_points),
                !.memory_usage = AddPoint(@, parse_memory_usage(mem), elapsed, ts.max_points),
                !.battery_level = AddPoint(@, parse_battery_level(bat), elapsed, ts.max_points),
                !.battery_temperature =
                    AddPoint(@, parse_battery_temperature(bat), elapsed, ts.max_points)]

\* The series are not trimmed when the capacity changes.
trim_time_series_data_Skipped(ts) == ts

\* trim_time_series_data
trim_time_series_data(ts) ==
    [ts EXCEPT
        !.cpu_usage = PopFrontWhile(@, ts.max_points),
        !.memory_usage = PopFrontWhile(@, ts.max_points),
        !.battery_level = PopFrontWhile(@, ts.max_points),
        !.battery_temperature = PopFrontWhile(@, ts.max_points)]

(***************************************************************************)
(* Telemetry sampler (show_adb_tools, show_device_monitor_tab).            *)
(***************************************************************************)
\* The record of the pushes: a store that never evicts.
PushLog == [DefaultTimeSeries EXCEPT !.max_points = MaxPasses + 1]

\* No pass has asked the device anything yet.
NoAnswer == [OkResponse EXCEPT !.cpu = "none", !.mem = "none", !.battery = "none"]

TelEv(op, note) == [family |-> "adb", op |-> op, prior |-> None, note |-> note]

InitTelemetry ==
    /\ monitoring_enabled = FALSE
    /\ last_update_time = NoneV
    \* apply_to_adb_state at construction: the interval of the configuration
    /\ monitor_interval \in 1..MaxInterval
    /\ time_series = DefaultTimeSeries
    /\ cpu_usage = CpuEmpty
    /\ memory_info = NoneV
    /\ battery_info = NoBattery
    /\ aborted = FALSE
    /\ passes = 0
    /\ pushed = PushLog
    /\ answer = NoAnswer
    /\ now = 0

\* The clock advances between frames.
TimePasses ==
    /\ ~aborted /\ selected_tool = "AdbTools"
    /\ now < MaxTime
    /\ now' = now + 1

\* A panic unwinds out of the frame: the process is gone.
Abort ==
    /\ aborted' = TRUE
    /\ passes' = passes + 1
    /\ ev' = TelEv("panic", "none")
    /\ UNCHANGED <<monitoring_enabled, last_update_time, monitor_interval, time_series,
                   cpu_usage, memory_info, battery_info, pushed, now>>

\* How long a pass blocks: it runs no command when no device is selected.
BlockTimes == IF selected_device = None THEN {0} ELSE 0..MaxBlock

\* The pass asks the device without looking at the selection.
update_monitoring_data_IgnoresSelection(ts, r, t) ==
    LET cpu == get_cpu_usage(cpu_usage, r)
        mem == get_memory_info(r)
        bat == get_battery_monitoring_info(r)
    IN  [time_series |-> add_time_series_data(ts, cpu, mem, bat, t),
         cpu_usage |-> cpu, memory_info |-> mem, battery_info |-> bat]

\* update_monitoring_data on the time series ts, the device answering r; the
\* commands return at clock value t.  Nothing happens without a selection.
update_monitoring_data(ts, r, t) ==
    IF selected_device = None
    THEN [time_series |-> ts, cpu_usage |-> cpu_usage, memory_info |-> memory_info,
          battery_info |-> battery_info]
    ELSE LET cpu == get_cpu_usage(cpu_usage, r)
             mem == get_memory_info(r)
             bat == get_battery_monitoring_info(r)
         IN  [time_series |-> add_time_series_data(ts, cpu, mem, bat, t),
              cpu_usage |-> cpu, memory_info |-> mem, battery_info |-> bat]

\* The state after a pass p that ran on the time series ts and returned at t.
AfterPass(p, ts, t) ==
    /\ cpu_usage' = p.cpu_usage
    /\ memory_info' = p.memory_info
    /\ battery_info' = p.battery_info
    /\ passes' = passes + 1
    /\ pushed' =
          IF selected_device = None THEN pushed
          ELSE [add_time_series_data([pushed EXCEPT !.start_time = ts.start_time],
                                     p.cpu_usage, p.memory_info, p.battery_info, t)
                   EXCEPT !.start_time = NoneV]

\* The gate is open in every frame.
should_update_Always == TRUE

\* should_update of the interval gate
should_update ==
    \/ last_update_time = NoneV
    \/ now - Unwrap(last_update_time) >= monitor_interval

\* One frame of show_adb_tools: the interval gate.  After the pass the gate
\* stores the clock in last_update_time, and in start_time when it is unset.
Tick ==
    /\ ~aborted /\ initial_refresh_done
    /\ IF ~monitoring_enabled
       THEN /\ ev' = TelEv("tick", "idle")
            /\ UNCHANGED <<telVars, now>>
       ELSE IF ~should_update
       THEN /\ ev' = TelEv("tick", "closed")
            /\ UNCHANGED <<telVars, now>>
       ELSE /\ passes < MaxPasses
            /\ \E r \in Responses, d \in BlockTimes : \E build \in BuildsFor(r) :
                  /\ now + d <= MaxTime
                  /\ answer' = IF selected_device = None THEN answer ELSE r
                  /\ IF selected_device # None /\ MemPanics(r, build) THEN Abort
                     ELSE LET p == update_monitoring_data(time_series, r, now + d)
                          IN  /\ AfterPass(p, time_series, now + d)
                              /\ time_series' =
                                    IF p.time_series.start_time = NoneV
                                    THEN [p.time_series EXCEPT !.start_time = Some(now + d)]
                                    ELSE p.time_series
                              /\ last_update_time' = Some(now + d)
                              /\ now' = now + d
                              /\ ev' = TelEv("tick", "open")
                              /\ UNCHANGED <<monitoring_enabled, monitor_interval, aborted>>
    /\ UNCHANGED adbRegVars

\* The anchor is left as it was.
EnableAnchor_Kept(ts, t) == ts

\* state.time_series.start_time = Some(Instant::now()) when monitoring starts.
EnableAnchor(ts, t) == [ts EXCEPT !.start_time = Some(t)]

\* Stopping also empties the series.
StopMonitoring_ClearsSeries ==
    /\ monitoring_enabled' = FALSE
    /\ last_update_time' = NoneV
    /\ time_series' = [time_series EXCEPT !.cpu_usage = <<>>, !.memory_usage = <<>>,
                                          !.battery_level = <<>>,
                                          !.battery_temperature = <<>>]
    /\ ev' = TelEv("disable", "none")
    /\ UNCHANGED <<monitor_interval, cpu_usage, memory_info,
                   battery_info, aborted, passes, pushed, answer, now>>

\* Monitoring stops: the flag is off and last_update_time is None.
StopMonitoring ==
    /\ monitoring_enabled' = FALSE
    /\ last_update_time' = NoneV
    /\ ev' = TelEv("disable", "none")
    /\ UNCHANGED <<monitor_interval, time_series, cpu_usage, memory_info,
                   battery_info, aborted, passes, pushed, answer, now>>

\* The Start/Stop Monitoring button.  The monitor tab is drawn only while a
\* device is selected.
ToggleMonitoring ==
    /\ ~aborted /\ initial_refresh_done /\ selected_device # None
    /\ IF ~monitoring_enabled
       THEN /\ passes < MaxPasses
            /\ \E r \in Responses, d \in BlockTimes : \E build \in BuildsFor(r) :
                  /\ now + d <= MaxTime
                  /\ answer' = r
                  /\ IF MemPanics(r, build) THEN Abort
                     ELSE LET anchored == EnableAnchor(time_series, now)
                              p == update_monitoring_data(anchored, r, now + d)
                          IN  /\ AfterPass(p, anchored, now + d)
                              /\ time_series' = p.time_series
                              /\ monitoring_enabled' = TRUE
                              /\ last_update_time' = Some(now + d)
                              /\ now' = now + d
                              /\ ev' = TelEv("enable", "none")
                              /\ UNCHANGED <<monitor_interval, aborted>>
       ELSE StopMonitoring
    /\ UNCHANGED adbRegVars

\* The "Update Now" button.
UpdateNow ==
    /\ ~aborted /\ initial_refresh_done /\ selected_device # None
    /\ passes < MaxPasses
    /\ \E r \in Responses, d \in BlockTimes : \E build \in BuildsFor(r) :
          /\ now + d <= MaxTime
          /\ answer' = r
          /\ IF MemPanics(r, build) THEN Abort
             ELSE LET p == update_monitoring_data(time_series, r, now + d)
                  IN  /\ AfterPass(p, time_series, now + d)
                      /\ time_series' = p.time_series
                      /\ last_update_time' = Some(now + d)
                      /\ now' = now + d
                      /\ ev' = TelEv("update_now", "none")
                      /\ UNCHANGED <<monitoring_enabled, monitor_interval, aborted>>
    /\ UNCHANGED adbRegVars

\* The "Max data points" drag value: a changed value is stored, then the
\* series are trimmed.
SetMaxPoints ==
    /\ ~aborted /\ initial_refresh_done /\ selected_device # None
    /\ \E new_max \in MinMaxPoints..MaxMaxPoints :
          /\ new_max # time_series.max_points
          /\ time_series' = trim_time_series_data([time_series EXCEPT !.max_points = new_max])
          /\ ev' = TelEv("set_max_points",
                         IF \E m \in Metrics : Len(time_series[m]) > new_max
                         THEN "over" ELSE "within")
    /\ pushed' = [time_series' EXCEPT !.start_time = NoneV, !.max_points = PushLog.max_points]
    /\ UNCHANGED <<monitoring_enabled, last_update_time, monitor_interval, cpu_usage,
                   memory_info, battery_info, aborted, passes, answer, now>>
    /\ UNCHANGED adbRegVars

\* The interval slider.
SetInterval ==
    /\ ~aborted /\ initial_refresh_done /\ selected_device # None
    /\ \E i \in 1..MaxInterval :
          /\ i # monitor_interval
          /\ monitor_interval' = i
    /\ ev' = TelEv("set_interval", "none")
    /\ UNCHANGED <<monitoring_enabled, last_update_time, time_series, cpu_usage,
                   memory_info, battery_info, aborted, passes, pushed, answer, now>>
    /\ UNCHANGED adbRegVars

\* The anchor survives the clear.
clear_plot_data_KeepsAnchor(ts, enabled, t) ==
    [ts EXCEPT !.cpu_usage = <<>>, !.memory_usage = <<>>, !.battery_level = <<>>,
               !.battery_temperature = <<>>]

\* clear_plot_data
clear_plot_data(ts, enabled, t) ==
    [ts EXCEPT !.cpu_usage = <<>>, !.memory_usage = <<>>, !.battery_level = <<>>,
               !.battery_temperature = <<>>,
               !.start_time = IF enabled THEN Some(t) ELSE NoneV]

\* The clear also stops the sampling.
ClearPlotData_StopsSampling ==
    /\ ~aborted /\ initial_refresh_done /\ selected_device # None
    /\ time_series.cpu_usage # <<>>
    /\ time_series' = clear_plot_data(time_series, monitoring_enabled, now)
    /\ pushed' = PushLog
    /\ monitoring_enabled' = FALSE
    /\ ev' = TelEv("clear", "none")
    /\ UNCHANGED <<last_update_time, monitor_interval, cpu_usage,
                   memory_info, battery_info, aborted, passes, answer, now>>
    /\ UNCHANGED adbRegVars

\* The "Clear Plot Data" button: drawn with the plots, which are drawn while
\* the CPU series is not empty.
ClearPlotData ==
    /\ ~aborted /\ initial_refresh_done /\ selected_device # None
    /\ time_series.cpu_usage # <<>>
    /\ time_series' = clear_plot_data(time_series, monitoring_enabled, now)
    /\ pushed' = PushLog
    /\ ev' = TelEv("clear", "none")
    /\ UNCHANGED <<monitoring_enabled, last_update_time, monitor_interval, cpu_usage,
                   memory_info, battery_info, aborted, passes, answer, now>>
    /\ UNCHANGED adbRegVars

\* OhMyToolboxsApp::load_saved_settings and reset_to_defaults:
\* apply_to_adb_state copies the selection and the interval of the
\* configuration (any stored values on load, None and 1.0 s on reset).  They
\* touch the ADB state alone, so they are followed on the welcome screen and
\* in the ADB panel.
LoadSavedSettings(ids) ==
    /\ ~aborted /\ selected_tool \in {None, "AdbTools"}
    /\ \E cfg_selected \in {None} \cup ids, cfg_interval \in 1..MaxInterval :
          /\ LoadSavedSelection(cfg_selected)
          /\ monitor_interval' = cfg_interval
    /\ UNCHANGED <<monitoring_enabled, last_update_time, time_series, cpu_usage,
                   memory_info, battery_info, aborted, passes, pushed, answer, now>>

ResetToDefaults ==
    /\ ~aborted /\ selected_tool \in {None, "AdbTools"}
    /\ LoadSavedSelection(None)
    /\ monitor_interval' = 1
    /\ UNCHANGED <<monitoring_enabled, last_update_time, time_series, cpu_usage,
                   memory_info, battery_info, aborted, passes, pushed, answer, now>>

(***************************************************************************)
(* Streaming executor (FastbootTool::execute_with_output).                 *)
(***************************************************************************)
Streams == {"stdout", "stderr"}

\* A line the child writes: its text as a sequence of characters, and whether
\* its bytes are valid UTF-8 (BufRead::lines yields Err for a line that is not).
Text(chars) == [utf8 |-> TRUE, text |-> chars]
InvalidUtf8Line == [utf8 |-> FALSE, text |-> <<"?">>]
ChildLines ==
    {Text(<<"o", "k">>),
     Text(<<"F", "A", "I", "L", "E", "D", ":", "x">>),
     Text(<<"a", "n", "e", "r", "r", "o", "r">>),
     Text(<<"E", "r", "r", "o", "r">>),
     InvalidUtf8Line}

MarkerFAILED == <<"F", "A", "I", "L", "E", "D">>
MarkerError == <<"e", "r", "r", "o", "r">>

\* str::contains: the pattern is searched from each offset in turn.
StartsWith(s, pat) == Len(s) >= Len(pat) /\ SubSeq(s, 1, Len(pat)) = pat
RECURSIVE Contains(_, _)
Contains(s, pat) ==
    IF Len(s) < Len(pat) THEN FALSE
    ELSE IF StartsWith(s, pat) THEN TRUE
    ELSE Contains(Tail(s), pat)

\* The markers are matched whatever the case of their first letter.
IsErrorLine_IgnoresCase(text) ==
    \/ Contains(text, MarkerFAILED)
    \/ Contains(text, MarkerError)
    \/ Contains(text, <<"E", "r", "r", "o", "r">>)

\* line.contains("FAILED") || line.contains("error")
IsErrorLine(text) == Contains(text, MarkerFAILED) \/ Contains(text, MarkerError)

\* [String]::join("\n")
RECURSIVE Join(_)
Join(lines) ==
    IF lines = <<>> THEN <<>>
    ELSE IF Len(lines) = 1 THEN lines[1]
    ELSE lines[1] \o <<"\n">> \o Join(Tail(lines))

NoResult == [kind |-> "none", success |-> FALSE, output |-> <<>>, error |-> NoneV]
ErrResult == [kind |-> "err", success |-> FALSE, output |-> <<>>, error |-> NoneV]

\* The success flag is taken from the classification.
FastbootResult_SuccessFromLines(status_success, out_lines, err_lines) ==
    [kind |-> "ok",
     success |-> err_lines = <<>>,
     output |-> Join(out_lines),
     error |-> IF err_lines = <<>> THEN NoneV ELSE Some(Join(err_lines))]

\* The FastbootResult built after child.wait().
FastbootResult(status_success, out_lines, err_lines) ==
    [kind |-> "ok",
     success |-> status_success,
     output |-> Join(out_lines),
     error |-> IF err_lines = <<>> THEN NoneV ELSE Some(Join(err_lines))]

InitStream ==
    /\ child = [stdout |-> <<>>, stderr |-> <<>>, exit |-> "none"]
    /\ pipe = [s \in Streams |-> <<>>]
    /\ reader_pc = [s \in Streams |-> "none"]
    /\ channel = <<>>
    /\ main_pc = "idle"
    /\ output_lines = <<>>
    /\ error_lines = <<>>
    /\ delivered = <<>>
    /\ result = NoResult

\* execute_with_output up to drop(tx): the command is spawned with both
\* streams piped (or cannot be spawned), the channel is created, one reader
\* thread per stream is started with a clone of the sender, and the caller's
\* own sender is dropped.  The child is given by what it writes to each stream
\* and by how it ends: it exits with success or failure, it cannot be waited
\* for, or it never ends and keeps its streams open ("hang").  Its lines are
\* drawn from `lines`.
StreamSpawn(lines) ==
    /\ main_pc = "idle"
    /\ \/ /\ main_pc' = "failed"
          /\ result' = ErrResult
          /\ UNCHANGED <<child, pipe, reader_pc>>
       \/ \E out \in SeqsUpTo(lines, MaxStreamLines),
             err \in SeqsUpTo(lines, MaxStreamLines),
             exit \in {"success", "failure", "wait_err", "hang"} :
             /\ child' = [stdout |-> out, stderr |-> err, exit |-> exit]
             /\ pipe' = [s \in Streams |-> IF s = "stdout" THEN out ELSE err]
             /\ reader_pc' = [s \in Streams |-> "reading"]
             /\ main_pc' = "drain"
             /\ UNCHANGED result
    /\ UNCHANGED <<channel, output_lines, error_lines, delivered>>

\* The reader thread passes the line to the callback itself.
ReaderStep_InvokesCallback(s) ==
    /\ reader_pc[s] = "reading"
    /\ IF pipe[s] = <<>>
       THEN /\ reader_pc' = [reader_pc EXCEPT ![s] = "done"]
            /\ UNCHANGED <<pipe, delivered>>
       ELSE /\ pipe' = [pipe EXCEPT ![s] = Tail(@)]
            /\ delivered' = IF Head(pipe[s]).utf8
                            THEN Append(delivered, Head(pipe[s]).text)
                            ELSE delivered
            /\ UNCHANGED reader_pc
    /\ UNCHANGED <<child, main_pc, output_lines, error_lines, channel, result>>

\* One iteration of a reader thread's `for line in reader.lines()`: a line
\* that decodes is sent, a line that does not is skipped; at end-of-stream the
\* thread ends and its sender is dropped.  The read blocks on an empty pipe
\* that the child holds open.
ReaderStep(s) ==
    /\ reader_pc[s] = "reading"
    /\ IF pipe[s] = <<>>
       THEN /\ child.exit # "hang"
            /\ reader_pc' = [reader_pc EXCEPT ![s] = "done"]
            /\ UNCHANGED <<pipe, channel>>
       ELSE /\ pipe' = [pipe EXCEPT ![s] = Tail(@)]
            /\ channel' = IF Head(pipe[s]).utf8
                          THEN Append(channel, Head(pipe[s]).text)
                          ELSE channel
            /\ UNCHANGED reader_pc
    /\ UNCHANGED <<child, main_pc, output_lines, error_lines, delivered, result>>

\* recv fails as soon as one reader has finished.
ChannelClosed_AnySender == \E s \in Streams : reader_pc[s] = "done"

\* recv never fails: a sender is left alive.
ChannelClosed_SenderKept == FALSE

\* Every sender is dropped: the channel is closed.
ChannelClosed == \A s \in Streams : reader_pc[s] = "done"

\* The line goes to error_lines or to output_lines.
Classify(line, out_lines, err_lines) ==
    IF IsErrorLine(line)
    THEN [output_lines |-> out_lines, error_lines |-> Append(err_lines, line)]
    ELSE [output_lines |-> Append(out_lines, line), error_lines |-> err_lines]

\* recv hands out the newest queued line.
Recv_TakesNewest ==
    /\ main_pc = "drain"
    /\ IF channel # <<>>
       THEN LET line == channel[Len(channel)]
                c == Classify(line, output_lines, error_lines)
            IN  /\ channel' = SubSeq(channel, 1, Len(channel) - 1)
                /\ delivered' = Append(delivered, line)
                /\ output_lines' = c.output_lines
                /\ error_lines' = c.error_lines
                /\ UNCHANGED main_pc
       ELSE /\ ChannelClosed
            /\ main_pc' = "wait"
            /\ UNCHANGED <<channel, delivered, output_lines, error_lines>>
    /\ UNCHANGED <<child, pipe, reader_pc, result>>

\* One iteration of `while let Ok(line) = rx.recv()`: a queued line is passed
\* to the callback and classified; recv on the empty, closed channel ends the
\* loop; recv on the empty, open channel blocks.
Recv ==
    /\ main_pc = "drain"
    /\ IF channel # <<>>
       THEN LET line == Head(channel)
                c == Classify(line, output_lines, error_lines)
            IN  /\ channel' = Tail(channel)
                /\ delivered' = Append(delivered, line)
                /\ output_lines' = c.output_lines
                /\ error_lines' = c.error_lines
                /\ UNCHANGED main_pc
       ELSE /\ ChannelClosed
            /\ main_pc' = "wait"
            /\ UNCHANGED <<channel, delivered, output_lines, error_lines>>
    /\ UNCHANGED <<child, pipe, reader_pc, result>>

\* child.wait()? and the returned result.
WaitAndReturn ==
    /\ main_pc = "wait"
    /\ IF child.exit = "wait_err"
       THEN /\ main_pc' = "failed"
            /\ result' = ErrResult
       ELSE /\ main_pc' = "returned"
            /\ result' = FastbootResult(child.exit = "success", output_lines, error_lines)
    /\ UNCHANGED <<child, pipe, reader_pc, channel, output_lines, error_lines, delivered>>


(***************************************************************************)
(* Command gateways (execute_adb_command, FastbootTool::execute_operation). *)
(***************************************************************************)
\* Captured bytes of a stream, one element a character; "\xFF" stands for a
\* byte that is not valid UTF-8.
Captures == {<<>>, <<"o", "k">>, <<"\\xFF", "!">>}

\* What Command::output() comes to: the process cannot be started, or it ran
\* to its end with an exit status and both streams captured.
NotStarted == [spawn |-> "err", exit |-> "none", stdout |-> <<>>, stderr |-> <<>>]
Processes ==
    {NotStarted}
    \cup {[spawn |-> "ok", exit |-> e, stdout |-> out, stderr |-> err] :
             e \in {"success", "failure"}, out \in Captures, err \in Captures}

\* String::from_utf8_lossy: an invalid byte becomes U+FFFD.
from_utf8_lossy(bytes) ==
    [i \in 1..Len(bytes) |-> IF bytes[i] = "\\xFF" THEN "U+FFFD" ELSE bytes[i]]

\* How often one invocation runs the process: Command::output() is called once.
Attempts(proc) == 1

\* The status is not looked at: the output is returned whenever the process ran.
execute_adb_command_IgnoresStatus(proc) ==
    IF proc.spawn = "err" THEN [kind |-> "Err", value |-> <<"io error">>]
    ELSE [kind |-> "Ok", value |-> from_utf8_lossy(proc.stdout)]

\* execute_adb_command: Ok(stdout) when the exit status is success, the error
\* "ADB command failed: <stderr>" when it is not, the io error of `?` when the
\* process could not be started.
execute_adb_command(proc) ==
    IF proc.spawn = "err" THEN [kind |-> "Err", value |-> <<"io error">>]
    ELSE IF proc.exit = "success"
    THEN [kind |-> "Ok", value |-> from_utf8_lossy(proc.stdout)]
    ELSE [kind |-> "Err",
          value |-> <<"ADB command failed: ">> \o from_utf8_lossy(proc.stderr)]

\* FastbootTool::execute_operation: the io error of `?`, or a FastbootResult
\* with the exit status, stdout, and stderr unless it is empty.
execute_operation(proc) ==
    IF proc.spawn = "err" THEN ErrResult
    ELSE [kind |-> "ok",
          success |-> proc.exit = "success",
          output |-> from_utf8_lossy(proc.stdout),
          error |-> IF from_utf8_lossy(proc.stderr) = <<>> THEN NoneV
                    ELSE Some(from_utf8_lossy(proc.stderr))]

InitGateway ==
    gateway = [tool |-> "none", proc |-> NotStarted, result |-> NoResult,
               calls |-> 0, runs |-> 0]

\* One invocation of execute_adb_command.
ExecuteAdbCommand ==
    /\ gateway.calls < MaxCalls
    /\ \E proc \in Processes :
          gateway' = [tool |-> "adb", proc |-> proc, result |-> execute_adb_command(proc),
                      calls |-> gateway.calls + 1, runs |-> gateway.runs + Attempts(proc)]

\* One invocation of FastbootTool::execute_operation.
ExecuteOperation ==
    /\ gateway.calls < MaxCalls
    /\ \E proc \in Processes :
          gateway' = [tool |-> "fastboot", proc |-> proc, result |-> execute_operation(proc),
                      calls |-> gateway.calls + 1, runs |-> gateway.runs + Attempts(proc)]

(***************************************************************************)
(* Specifications.                                                         *)
(***************************************************************************)
Tools == {"AdbTools", "FastbootTools", "QdlTools", "QramdumpTools"}

vars == <<adbRegVars, fbVars, qdlVars, qrdVars, telVars, streamVars, gwVars, selected_tool,
          now, ev>>

Init ==
    /\ InitRegistry
    /\ InitTelemetry
    /\ InitStream
    /\ InitGateway
    /\ selected_tool = None

\* The sidebar: a tool panel is opened.  The four panels share no state, so a
\* run follows one panel.
SelectTool(t) ==
    /\ selected_tool = None
    /\ selected_tool' = t
    /\ UNCHANGED <<adbRegVars, fbVars, qdlVars, qrdVars, telVars, streamVars, gwVars, now, ev>>

notAdb == <<fbVars, qdlVars, qrdVars, streamVars, gwVars, selected_tool>>
notFb == <<adbRegVars, qdlVars, qrdVars, telVars, streamVars, gwVars, selected_tool, now>>
notQdl == <<adbRegVars, fbVars, qrdVars, telVars, streamVars, gwVars, selected_tool, now>>
notQrd == <<adbRegVars, fbVars, qdlVars, telVars, streamVars, gwVars, selected_tool, now>>
notStream == <<adbRegVars, fbVars, qdlVars, qrdVars, telVars, gwVars, selected_tool, now, ev>>
notGateway == <<adbRegVars, fbVars, qdlVars, qrdVars, telVars, streamVars, selected_tool, now,
                ev>>

AdbPanel == selected_tool = "AdbTools" /\ ~aborted

\* The device registry of the ADB panel, the listing command answering
\* from `listings` and the configuration file naming a device of `ids`.
NextAdbRegistry(listings, ids) ==
    \/ AdbPanel /\ AdbInitialRefresh(listings) /\ UNCHANGED <<telVars, now, notAdb>>
    \/ AdbPanel /\ AdbRefresh(listings) /\ UNCHANGED <<telVars, now, notAdb>>
    \/ AdbPanel /\ AdbSelect /\ UNCHANGED <<telVars, now, notAdb>>
    \/ LoadSavedSettings(ids) /\ UNCHANGED notAdb
    \/ ResetToDefaults /\ UNCHANGED notAdb

NextRegistry ==
    \/ \E t \in Tools : SelectTool(t)
    \/ NextAdbRegistry(AdbListings, DeviceIds)
    \/ selected_tool = "FastbootTools" /\ FbInitialRefresh /\ UNCHANGED notFb
    \/ selected_tool = "FastbootTools" /\ FbRefresh /\ UNCHANGED notFb
    \/ selected_tool = "FastbootTools" /\ FbSelect /\ UNCHANGED notFb
    \/ selected_tool = "QdlTools" /\ QdlInitialRefresh /\ UNCHANGED notQdl
    \/ selected_tool = "QdlTools" /\ QdlRefresh /\ UNCHANGED notQdl
    \/ selected_tool = "QdlTools" /\ QdlSelect /\ UNCHANGED notQdl
    \/ selected_tool = "QramdumpTools" /\ QrdInitialRefresh /\ UNCHANGED notQrd
    \/ selected_tool = "QramdumpTools" /\ QrdRefresh /\ UNCHANGED notQrd
    \/ selected_tool = "QramdumpTools" /\ QrdSelect /\ UNCHANGED notQrd

SpecRegistry == Init /\ [][NextRegistry]_vars

\* The ADB panel with its device monitor.  The monitor reads the selection
\* only as present or absent, so here the listing names at most one device.
MonitoredDevice == "d1"
MonitorListings ==
    {r \in AdbListings : \A i \in 1..Len(r.devs) : i = 1 /\ r.devs[i].id = MonitoredDevice}

InitMonitor ==
    /\ Init
    /\ selected_device \in {None, MonitoredDevice}

NextTelemetry ==
    \/ SelectTool("AdbTools")
    \/ NextAdbRegistry(MonitorListings, {MonitoredDevice})
    \/ AdbPanel /\ Tick /\ UNCHANGED notAdb
    \/ AdbPanel /\ ToggleMonitoring /\ UNCHANGED notAdb
    \/ AdbPanel /\ UpdateNow /\ UNCHANGED notAdb
    \/ AdbPanel /\ SetMaxPoints /\ UNCHANGED notAdb
    \/ AdbPanel /\ SetInterval /\ UNCHANGED notAdb
    \/ AdbPanel /\ ClearPlotData /\ UNCHANGED notAdb
    \/ TimePasses /\ UNCHANGED <<adbRegVars, monitoring_enabled, last_update_time,
                                  monitor_interval, time_series, cpu_usage, memory_info,
                                  battery_info, aborted, passes, pushed, answer, ev,
                                  notAdb>>

SpecTelemetry == InitMonitor /\ [][NextTelemetry]_vars

\* One run of the streaming executor: the caller and the two reader threads.
NextStream(lines) ==
    \/ StreamSpawn(lines) /\ UNCHANGED notStream
    \/ \E s \in Streams : ReaderStep(s) /\ UNCHANGED notStream
    \/ Recv /\ UNCHANGED notStream
    \/ WaitAndReturn /\ UNCHANGED notStream

\* The executor takes no part of the panels' state: they stay as constructed.
InitExecutor == Init /\ selected_device = None

\* Invocations of the two gateways.
NextGateway ==
    \/ ExecuteAdbCommand /\ UNCHANGED notGateway
    \/ ExecuteOperation /\ UNCHANGED notGateway

SpecGateway == InitExecutor /\ [][NextGateway]_vars

SpecStream == InitExecutor /\ [][NextStream(ChildLines)]_vars

\* Whether a run ends depends on how many lines the child writes and on
\* which of them decode, not on their text: a plain line, a line with a
\* marker and a line that does not decode.
LiveLines == {Text(<<"o", "k">>), Text(<<"F", "A", "I", "L", "E", "D", ":", "x">>),
              InvalidUtf8Line}

\* The three threads are scheduled: a thread that can take a step takes it.
SpecStreamLive ==
    /\ InitExecutor /\ [][NextStream(LiveLines)]_vars
    /\ \A s \in Streams : WF_vars(ReaderStep(s) /\ UNCHANGED notStream)
    /\ WF_vars(Recv /\ UNCHANGED notStream)
    /\ WF_vars(WaitAndReturn /\ UNCHANGED notStream)

(***************************************************************************)
(* Device registry: the selection after a refresh.                         *)
(***************************************************************************)
Families == {"adb", "fastboot", "qdl", "qramdump"}

\* The identifiers of the device list of family f, in list order.
ListedIds(f) ==
    IF f = "adb" THEN [i \in 1..Len(devices) |-> devices[i].id]
    ELSE IF f = "fastboot" THEN [i \in 1..Len(fb_devices) |-> fb_devices[i].serial]
    ELSE IF f = "qdl" THEN [i \in 1..Len(qdl_devices) |-> qdl_devices[i].port]
    ELSE [i \in 1..Len(qrd_devices) |-> qrd_devices[i].port]

\* The selection of family f.
Selection(f) ==
    IF f = "adb" THEN selected_device
    ELSE IF f = "fastboot" THEN fb_selected_device
    ELSE IF f = "qdl" THEN qdl_selected_device
    ELSE qrd_selected_device

\* The last step was a refresh of family f that produced a device list.
Refreshed(f) == ev.family = f /\ ev.op = "refresh"

IsListed(f, id) == \E i \in 1..Len(ListedIds(f)) : ListedIds(f)[i] = id

\* C4: in every family, after a refresh whose resulting device list is empty
\* the selection is None, whatever it was before.
C4_EmptyListClearsSelection ==
    \A f \in Families :
        (Refreshed(f) /\ ListedIds(f) = <<>>) => Selection(f) = None

\* C5: in every family, after a refresh whose resulting device list has two
\* or more devices the selection is the prior selection if that is listed, and
\* None otherwise.
C5_SeveralDevicesKeepOrClear ==
    \A f \in Families :
        (Refreshed(f) /\ Len(ListedIds(f)) >= 2) =>
            Selection(f) = IF IsListed(f, ev.prior) THEN ev.prior ELSE None

\* C6: in every family, after a refresh whose resulting device list has
\* exactly one device the selection is that device's identifier, whatever the
\* selection was before.
C6_SingleDeviceSelected ==
    \A f \in Families :
        (Refreshed(f) /\ Len(ListedIds(f)) = 1) => Selection(f) = ListedIds(f)[1]

\* A fastboot refresh found exactly one device while another one was selected.
C6_Witness ==
    /\ Refreshed("fastboot")
    /\ Len(fb_devices) = 1
    /\ ev.prior \in DeviceIds
    /\ ev.prior # fb_devices[1].serial

(***************************************************************************)
(* Ring buffer store.                                                      *)
(***************************************************************************)
Min(a, b) == IF a < b THEN a ELSE b

\* The newest n samples of s, in their order.
Newest(s, n) == SubSeq(s, Len(s) - n + 1, Len(s))

\* C1: in every reachable state each of the four metric series is no longer
\* than the current capacity max_points.
C1_LengthWithinCapacity ==
    \A m \in Metrics : Len(time_series[m]) <= time_series.max_points

\* A series is filled to its capacity after a sample was evicted from it.
C1_Witness ==
    /\ Len(time_series.cpu_usage) = time_series.max_points
    /\ Len(pushed.cpu_usage) > time_series.max_points

\* C2: while the capacity of a series stays the same, the series holds
\* exactly the newest min(n, capacity) of the n samples pushed to it, in the
\* order they were pushed: eviction removes the oldest first.
C2_NewestInPushOrder ==
    \A m \in Metrics :
        time_series[m] = Newest(pushed[m], Min(Len(pushed[m]), time_series.max_points))

\* More samples were pushed than the capacity holds, at different times.
C2_Witness ==
    /\ Len(pushed.cpu_usage) > time_series.max_points
    /\ pushed.cpu_usage[1].timestamp # pushed.cpu_usage[Len(pushed.cpu_usage)].timestamp
    /\ time_series.cpu_usage # <<>>

\* C3: a change of the capacity to n leaves every series equal to its own
\* newest min(len, n) samples in their order: a longer series is cut to the
\* newest n at once, a series that fits is left as it is.
C3_CapacityChangeKeepsNewest ==
    [][ev'.op = "set_max_points" =>
          \A m \in Metrics :
              time_series'[m] =
                  Newest(time_series[m], Min(Len(time_series[m]), time_series'.max_points))]_vars

\* The capacity was lowered below the length of a series, which was cut.
C3_Witness ==
    /\ ev.op = "set_max_points"
    /\ ev.note = "over"
    /\ Len(time_series.cpu_usage) = time_series.max_points
    /\ \E i \in 1..Len(time_series.cpu_usage) : time_series.cpu_usage[i].timestamp > 0

(***************************************************************************)
(* Telemetry sampler: the interval gate.                                   *)
(***************************************************************************)
\* A frame of the ADB panel while sampling is enabled.
EnabledTick == monitoring_enabled /\ ~aborted /\ Tick

\* Less than the interval has elapsed since last_update_time.
WithinInterval ==
    /\ last_update_time # NoneV
    /\ now - Unwrap(last_update_time) < monitor_interval

SeriesUnchanged == \A m \in Metrics : time_series'[m] = time_series[m]

\* C7 as stated, for a pass that returns: on a tick while sampling is enabled,
\* within the interval no pass runs and no series gains a sample; otherwise
\* exactly one pass runs and last_update_time becomes the time at which the
\* gate was checked.
C7_GateStampsCheckTime ==
    [][(EnabledTick /\ ~aborted') =>
          IF WithinInterval
          THEN passes' = passes /\ SeriesUnchanged
          ELSE passes' = passes + 1 /\ last_update_time' = Some(now)]_vars

\* C7: on a tick while sampling is enabled, within the interval no pass runs
\* and no series gains a sample; otherwise exactly one pass is started, and
\* unless it panics last_update_time becomes the clock value read once the
\* pass has returned, which is the time of the check or later.
C7_GateStampsAfterPass ==
    [][EnabledTick =>
          IF WithinInterval
          THEN passes' = passes /\ SeriesUnchanged /\ UNCHANGED last_update_time
          ELSE /\ passes' = passes + 1
               /\ IF aborted' THEN UNCHANGED last_update_time
                  ELSE last_update_time' = Some(now') /\ now' >= now]_vars

\* The gate opened after more than one interval and the pass pushed a sample.
C7_Witness ==
    /\ ev.op = "tick" /\ ev.note = "open"
    /\ monitoring_enabled
    /\ passes = MaxPasses
    /\ last_update_time = Some(now)
    /\ now > monitor_interval
    /\ Len(pushed.cpu_usage) = MaxPasses

(***************************************************************************)
(* Streaming executor: delivery, classification and the success flag.      *)
(***************************************************************************)
\* How often x occurs in the sequence s.
Count(s, x) == Cardinality({i \in 1..Len(s) : s[i] = x})

\* C8: when the result is returned the callback has been invoked exactly once
\* for each line the child wrote to stdout or stderr: no line is lost and none
\* is delivered twice.
C8_EveryLineDeliveredOnce ==
    result.kind = "ok" =>
        /\ Len(delivered) = Len(child.stdout) + Len(child.stderr)
        /\ \A l \in ChildLines :
              Count(delivered, l.text) = Count(child.stdout, l) + Count(child.stderr, l)

\* The text holds FAILED or error, letter for letter, somewhere.
HasMarker(text) ==
    \E i \in 1..Len(text), j \in 1..Len(text) :
        SubSeq(text, i, j) \in {MarkerFAILED, MarkerError}
HasNoMarker(text) == ~HasMarker(text)

\* C9: every delivered line is in exactly one aggregate, the error aggregate
\* iff it holds the case-sensitive substring FAILED or error; each aggregate
\* is its lines in delivery order joined by newlines, and the error aggregate
\* is None iff no line was classified as error.
C9_ClassifiedAndJoined ==
    /\ error_lines = SelectSeq(delivered, HasMarker)
    /\ output_lines = SelectSeq(delivered, HasNoMarker)
    /\ result.kind = "ok" =>
          /\ result.output = Join(SelectSeq(delivered, HasNoMarker))
          /\ IF \E i \in 1..Len(delivered) : HasMarker(delivered[i])
             THEN result.error = Some(Join(SelectSeq(delivered, HasMarker)))
             ELSE result.error = NoneV

\* A result with two lines in each aggregate, "Error" among the output lines
\* and a line with "error" inside among the error lines.
C9_Witness ==
    /\ result.kind = "ok"
    /\ Len(output_lines) = 2 /\ Len(error_lines) = 2
    /\ \E i \in 1..2 : output_lines[i] = <<"E", "r", "r", "o", "r">>
    /\ \E i \in 1..2 : error_lines[i] = <<"a", "n", "e", "r", "r", "o", "r">>
    /\ result.error # NoneV

\* C10: the success flag of a result is the child's exit status, whatever the
\* classification of the lines.
C10_SuccessIsExitStatus ==
    result.kind = "ok" => result.success = (child.exit = "success")

\* A successful exit after a line was classified as error.
C10_Witness ==
    /\ result.kind = "ok"
    /\ error_lines # <<>>
    /\ child.exit = "success"
    /\ result.success

(***************************************************************************)
(* Telemetry sampler: the sampling session.                                *)
(***************************************************************************)
\* The Start/Stop button pressed while idle, and pressed while sampling.
EnableStep == ~monitoring_enabled /\ ToggleMonitoring
DisableStep == monitoring_enabled /\ ToggleMonitoring

\* How many samples the step pushed to series m.
Gained(m) == Len(pushed'[m]) - Len(pushed[m])

\* C11: the toggle from Idle to Sampling starts exactly one pass at once,
\* whatever last_update_time was; when the pass has returned sampling is
\* enabled, start_time is the time of the toggle, last_update_time is set and
\* the pass has pushed its samples (one to a battery series the device
\* answered for, at most one to any series).
C11_EnableRunsOnePass ==
    [][EnableStep =>
          /\ passes' = passes + 1
          /\ ~aborted' =>
                /\ monitoring_enabled'
                /\ time_series'.start_time = Some(now)
                /\ last_update_time' = Some(now')
                /\ \A m \in Metrics : Gained(m) \in {0, 1}
                /\ answer'.battery = "ok" => Gained("battery_level") = 1]_vars

\* Sampling was enabled at a time after 0, the pass took time and pushed a sample.
C11_Witness ==
    /\ ev.op = "enable"
    /\ monitoring_enabled
    /\ time_series.start_time # NoneV
    /\ Unwrap(time_series.start_time) > 0
    /\ last_update_time = Some(now)
    /\ now > Unwrap(time_series.start_time)
    /\ time_series.battery_level # <<>>

\* C12: when sampling is toggled on (again), the session is reset: start_time
\* is a fresh anchor and every series holds nothing but what the enabling pass
\* itself pushed.
C12_ReenableResetsSession ==
    [][(EnableStep /\ ~aborted') =>
          /\ time_series'.start_time = Some(now)
          /\ \A m \in Metrics : Len(time_series'[m]) = Gained(m)]_vars

\* C13: the toggle from Sampling to Idle clears last_update_time and leaves
\* the four series, the capacity and start_time as they are.
C13_DisableKeepsHistory ==
    [][DisableStep =>
          /\ ~monitoring_enabled'
          /\ last_update_time' = NoneV
          /\ time_series' = time_series]_vars

\* Sampling was stopped with samples in the series and the anchor set.
C13_Witness ==
    /\ ev.op = "disable"
    /\ ~monitoring_enabled
    /\ last_update_time = NoneV
    /\ time_series.start_time # NoneV
    /\ Len(time_series.cpu_usage) = 2

\* C14: the clear empties the four series and sets start_time to the current
\* time if sampling is enabled and to None if it is not; the capacity and the
\* sampling state stay.
C14_ClearEmptiesAndReanchors ==
    [][ClearPlotData =>
          /\ \A m \in Metrics : time_series'[m] = <<>>
          /\ time_series'.start_time = IF monitoring_enabled THEN Some(now) ELSE NoneV
          /\ time_series'.max_points = time_series.max_points
          /\ monitoring_enabled' = monitoring_enabled]_vars

\* The series were cleared while sampling, later than the session began.
C14_Witness ==
    /\ ev.op = "clear"
    /\ monitoring_enabled
    /\ \A m \in Metrics : time_series[m] = <<>>
    /\ time_series.start_time = Some(now)
    /\ now > 0
    /\ passes > 0

(***************************************************************************)
(* Telemetry sampler: what a pass appends.                                 *)
(***************************************************************************)
\* A step in which a pass was started, and one in which it returned.
PassStep == passes' = passes + 1
PassReturned == PassStep /\ ~aborted'

\* The anchor the pass measures against: the toggle sets it before its pass.
PassAnchor == IF ~monitoring_enabled /\ monitoring_enabled' THEN Some(now)
              ELSE time_series.start_time

Last(s) == s[Len(s)]

C16_PassNeverAborts == ~aborted

\* C17: a pass that runs while no device is selected issues no command (it
\* takes no time and records no answer), appends no sample and changes
\* none of the displayed values.
C17_NoDeviceNoOp ==
    [][(PassStep /\ selected_device = None) =>
          /\ ~aborted'
          /\ now' = now /\ answer' = answer
          /\ \A m \in Metrics : time_series'[m] = time_series[m]
          /\ cpu_usage' = cpu_usage
          /\ memory_info' = memory_info
          /\ battery_info' = battery_info]_vars

\* The gate ran a pass after the selection was lost during a session.
C17_Witness ==
    /\ ev.op = "tick" /\ ev.note = "open"
    /\ selected_device = None
    /\ monitoring_enabled
    /\ passes = 2
    /\ answer # NoAnswer
    /\ time_series.cpu_usage # <<>>

\* The device answered the last pass with MemTotal > 0 and MemAvailable <= MemTotal.
MemAnswered ==
    /\ selected_device # None
    /\ answer'.mem = "ok" /\ answer'.total > 0 /\ answer'.available <= answer'.total

\* C18 as stated: the memory metric, and the value appended, is exactly
\* (total - available) / total * 100 (here in tenths of a percent).
C18_ExactPercent ==
    [][(PassReturned /\ MemAnswered) =>
          /\ memory_info' # NoneV
          /\ Unwrap(memory_info') * answer'.total
                = (answer'.total - answer'.available) * 1000
          /\ Gained("memory_usage") = 1 =>
                Last(pushed'.memory_usage).value = Unwrap(memory_info')]_vars

\* C18: the memory metric, and the value appended, is
\* (total - available) / total * 100 rounded to the nearest tenth of a percent.
C18_PercentRoundedToTenth ==
    [][(PassReturned /\ MemAnswered) =>
          /\ memory_info' # NoneV
          /\ LET diff == Unwrap(memory_info') * answer'.total
                            - (answer'.total - answer'.available) * 1000
             IN  2 * diff <= answer'.total /\ 2 * diff >= 0 - answer'.total
          /\ Gained("memory_usage") = 1 =>
                Last(pushed'.memory_usage).value = Unwrap(memory_info')]_vars

\* Two thirds of the memory in use: 66.7 was appended.
C18_Witness ==
    /\ answer.mem = "ok" /\ answer.total = 3 /\ answer.available = 1
    /\ time_series.memory_usage # <<>>
    /\ Last(time_series.memory_usage).value = 667
    /\ memory_info = Some(667)

\* C20: in every reachable state the timestamps of each series are
\* non-decreasing from the oldest sample to the newest.
C20_Chronological ==
    \A m \in Metrics :
        \A i, j \in 1..Len(time_series[m]) :
            i < j => time_series[m][i].timestamp <= time_series[m][j].timestamp

(***************************************************************************)
(* Command gateways: success is the exit status.                           *)
(***************************************************************************)
Ran == gateway.proc.spawn = "ok"
ExitedWithSuccess == Ran /\ gateway.proc.exit = "success"

\* C19: the fastboot gateway's success flag is the exit status; the ADB
\* gateway returns Ok(stdout) exactly when the exit status is success and
\* otherwise an error that carries stderr; every invocation runs the process
\* once.
C19_SuccessIffExitStatus ==
    /\ gateway.tool = "fastboot" =>
          /\ gateway.result.kind = "ok" <=> Ran
          /\ Ran => gateway.result.success = ExitedWithSuccess
    /\ gateway.tool = "adb" =>
          /\ gateway.result.kind = "Ok" <=> ExitedWithSuccess
          /\ ExitedWithSuccess =>
                gateway.result.value = from_utf8_lossy(gateway.proc.stdout)
          /\ (Ran /\ ~ExitedWithSuccess) =>
                /\ gateway.result.kind = "Err"
                /\ SubSeq(gateway.result.value, 2, Len(gateway.result.value))
                      = from_utf8_lossy(gateway.proc.stderr)
    /\ gateway.runs = gateway.calls

\* The ADB gateway was invoked a second time and the process failed with
\* text on both streams.
C19_Witness ==
    /\ gateway.tool = "adb"
    /\ gateway.calls = 2
    /\ gateway.proc.spawn = "ok" /\ gateway.proc.exit = "failure"
    /\ gateway.proc.stdout # <<>> /\ gateway.proc.stderr # <<>>
    /\ gateway.result.kind = "Err"

(***************************************************************************)
(* Telemetry sampler: one metric's failure.                                *)
(***************************************************************************)
\* The answer of the last pass has what the parser of metric m needs.
Fetched(m, r) ==
    IF m = "cpu_usage" THEN r.cpu = "ok"
    ELSE IF m = "memory_usage" THEN r.mem = "ok"
    ELSE IF m = "battery_level" THEN r.battery = "ok" /\ r.level = "ok"
    ELSE r.battery = "ok" /\ r.temperature = "ok"

\* C21: in a pass of a session (a device is selected, start_time is set) the
\* series of a metric receives a sample exactly when the fetch and the parse
\* of that metric succeeded in that pass, whatever happened to the others.
C21_SampleIffFetched ==
    [][(PassReturned /\ selected_device # None /\ PassAnchor # NoneV) =>
          \A m \in Metrics : Gained(m) = 1 <=> Fetched(m, answer')]_vars

(***************************************************************************)
(* Streaming executor: the channel between the readers and the caller.     *)
(***************************************************************************)
\* The texts of the lines that decode, in order.
RECURSIVE ValidTexts(_)
ValidTexts(lines) ==
    IF lines = <<>> THEN <<>>
    ELSE IF Head(lines).utf8 THEN <<Head(lines).text>> \o ValidTexts(Tail(lines))
    ELSE ValidTexts(Tail(lines))

\* The lines of stream s its reader has taken from the pipe so far.
Consumed(s) == SubSeq(child[s], 1, Len(child[s]) - Len(pipe[s]))

\* C22: the caller is at child.wait(), or past it, only when both reader
\* threads have reached end-of-stream and ended, and nothing is left in the
\* channel: every line that was sent has been delivered.
C22_WaitAfterChannelClosed ==
    main_pc \in {"wait", "returned"} =>
        /\ \A s \in Streams : reader_pc[s] = "done" /\ pipe[s] = <<>>
        /\ channel = <<>>
        /\ Len(delivered) = Len(ValidTexts(child.stdout)) + Len(ValidTexts(child.stderr))

\* The caller is at child.wait() after lines of both streams were delivered.
C22_Witness ==
    /\ main_pc = "wait"
    /\ Len(ValidTexts(child.stdout)) = 2 /\ Len(ValidTexts(child.stderr)) = 2
    /\ Len(delivered) = 4

\* C23: the callback is invoked, and the aggregates grow, only in a step of
\* the caller's drain loop, with the line at the head of the channel, one
\* invocation a step; a step of a reader thread touches nothing but its pipe,
\* its own end and the tail of the channel.
C23_OnlyCallerInvokesCallback ==
    [][/\ (delivered' # delivered \/ output_lines' # output_lines
              \/ error_lines' # error_lines) =>
             /\ main_pc = "drain" /\ main_pc' = "drain"
             /\ channel # <<>>
             /\ delivered' = Append(delivered, Head(channel))
             /\ channel' = Tail(channel)
             /\ pipe' = pipe /\ reader_pc' = reader_pc
       /\ (main_pc # "idle" /\ (pipe' # pipe \/ reader_pc' # reader_pc)) =>
             /\ delivered' = delivered
             /\ output_lines' = output_lines /\ error_lines' = error_lines
             /\ main_pc' = main_pc
             /\ channel' = channel \/ \E l \in ChildLines : channel' = Append(channel, l.text)
      ]_vars

\* A line was delivered while both readers were still running and another
\* line was queued behind it.
C23_Witness ==
    /\ main_pc = "drain"
    /\ Len(delivered) = 1
    /\ channel # <<>>
    /\ \A s \in Streams : reader_pc[s] = "reading" /\ pipe[s] # <<>>

\* z is an interleaving of x and y: it keeps the order of each.
RECURSIVE IsShuffle(_, _, _)
IsShuffle(z, x, y) ==
    IF z = <<>> THEN x = <<>> /\ y = <<>>
    ELSE \/ x # <<>> /\ Head(x) = Head(z) /\ IsShuffle(Tail(z), Tail(x), y)
         \/ y # <<>> /\ Head(y) = Head(z) /\ IsShuffle(Tail(z), x, Tail(y))

\* C27: the lines delivered so far, followed by the queued ones, are an
\* interleaving of the decodable lines read from stdout and of those read from
\* stderr, each in the order the child wrote them; when the result is
\* returned the delivered lines are an interleaving of all of them.
C27_PerStreamFifo ==
    /\ IsShuffle(delivered \o channel,
                 ValidTexts(Consumed("stdout")), ValidTexts(Consumed("stderr")))
    /\ result.kind = "ok" =>
          IsShuffle(delivered, ValidTexts(child.stdout), ValidTexts(child.stderr))

\* A result after two different lines of each stream were delivered, an
\* stderr line first and an stdout line last.
C27_Witness ==
    /\ result.kind = "ok"
    /\ Len(delivered) = 4
    /\ ValidTexts(child.stdout) = <<<<"o", "k">>, <<"E", "r", "r", "o", "r">>>>
    /\ ValidTexts(child.stderr) = <<<<"a", "n", "e", "r", "r", "o", "r">>, <<"o", "k">>>>
    /\ delivered[1] = <<"a", "n", "e", "r", "r", "o", "r">>
    /\ delivered[4] = <<"E", "r", "r", "o", "r">>

(***************************************************************************)
(* Streaming executor: termination.                                        *)
(***************************************************************************)
\* The child closes both streams and exits.
ChildEnds == child.exit # "hang"

\* C26: a streaming run of a child that closes both streams and exits comes
\* back from the drain loop and returns: a result, or the error of wait.
C26_RunReturns ==
    (main_pc = "drain" /\ ChildEnds) ~> (main_pc \in {"returned", "failed"})

\* A run returned its result after its caller had waited for lines of both
\* streams.
C26_Witness ==
    /\ main_pc = "returned"
    /\ ChildEnds
    /\ Len(delivered) = 4
    /\ result.kind = "ok"

(***************************************************************************)
(* Device registry: who changes the selection, and what it names.          *)
(***************************************************************************)
\* C24: the selection of a family changes only in a refresh of that family's
\* registry or in an explicit selection by the user.
C24_SelectionOwnedByRegistry ==
    [][\A f \in Families :
          Selection(f)' # Selection(f) =>
              ev'.family = f /\ ev'.op \in {"refresh", "select"}]_vars

\* The registry of family f has refreshed its list at least once.
RefreshedOnce(f) ==
    IF f = "adb" THEN initial_refresh_done
    ELSE IF f = "fastboot" THEN fb_initial_refresh_done
    ELSE IF f = "qdl" THEN qdl_initial_refresh_done
    ELSE qrd_initial_refresh_done

\* C28: once a registry has refreshed its list, a selection that is not None
\* names a device of the current list, so with an empty list nothing is
\* selected.
C28_SelectionIsListed ==
    \A f \in Families :
        (RefreshedOnce(f) /\ Selection(f) # None) => IsListed(f, Selection(f))

\* A refresh of the ADB registry whose listing command could not be spawned
\* or exited with failure.
AdbRefreshFailed == \E r \in AdbListings : r.kind = "err" /\ refresh_devices(r)

\* C29: an ADB refresh whose listing failed leaves the device list, the
\* selection and the time of the last refresh as they were.
C29_FailedRefreshChangesNothing ==
    [][AdbRefreshFailed =>
          /\ devices' = devices
          /\ selected_device' = selected_device
          /\ last_refresh' = last_refresh]_vars

\* The listing failed while two devices were listed and one was selected.
C29_Witness ==
    /\ ev.family = "adb" /\ ev.op = "refresh_failed"
    /\ Len(devices) = 2
    /\ selected_device # None /\ IsListed("adb", selected_device)
    /\ last_refresh # "Never"

(***************************************************************************)
(* Telemetry sampler: Idle and Sampling.                                   *)
(***************************************************************************)
\* C25: the sampling state changes only in a step of the Start/Stop toggle:
\* frames, passes, refreshes, the loss of the device, the clear, a capacity
\* change, a manual update and a load of the settings leave it as it is.
C25_OnlyToggleChangesState ==
    [][monitoring_enabled' # monitoring_enabled =>
          /\ ToggleMonitoring
          /\ ev'.op \in {"enable", "disable"}]_vars

\* The device was lost during a session: the refresh left sampling enabled.
C25_Witness ==
    /\ monitoring_enabled
    /\ ev.family = "adb" /\ ev.op = "refresh"
    /\ ev.prior # None /\ selected_device = None
    /\ passes > 0

\* C30: a step that begins and ends with sampling disabled appends no sample:
\* no series grows.
C30_IdleAppendsNothing ==
    [][(~monitoring_enabled /\ ~monitoring_enabled') =>
          \A m \in Metrics : Len(time_series'[m]) <= Len(time_series[m])]_vars

====
